---- MODULE Spec2Model ----
(***************************************************************************)
(* Shop statistics controller (src/src/controllers/shopStatisticController.js) *)
(* The five report handlers, each a request that validates its parameters,   *)
(* issues its queries against the order store, awaits them (Promise.all) and *)
(* answers once.  The store is MongoDB: an aggregation's $sort leaves the     *)
(* order of documents with equal keys open, and $first without a preceding   *)
(* $sort takes whichever document the store returns first.                    *)
(*                                                                           *)
(* Instants are counted in ticks, TicksPerDay ticks to a day; the last tick  *)
(* of a day stands for 23:59:59.999.  Percentages are integers counted in    *)
(* hundredths (50.00 is 5000).                                               *)
(***************************************************************************)
EXTENDS Integers, Sequences, FiniteSets, TLC

VARIABLES
    orders,       \* the orders collection: a set of order documents
    users,        \* ids of the buyers that have a user document
    products,     \* the products collection: product id -> category_id (or Null)
    categories,   \* ids of the category documents that exist
    shops,        \* the shops collection: shop id -> [avg_rating, count_rating]
    tz,           \* the server's local timezone offset, in ticks east of UTC
    req,          \* the request being served
    pc,           \* "idle", "awaiting" (queries in flight) or "done"
    pending,      \* the queries issued and not yet answered by the store
    qres,         \* query name -> the result the store returned
    responses,    \* the responses sent for the request, in order
    issued,       \* number of queries issued against the store for the request
    dirty,        \* the data changed since the request arrived
    prev,         \* the previous completed request and its response
    diffArgs,     \* <<current, previous>> handed to calculatePercentageDiff
    diffOut,      \* its result, in hundredths
    diffDone      \* calculatePercentageDiff has returned

vars == <<orders, users, products, categories, shops, tz, req, pc, pending, qres,
          responses, issued, dirty, prev, diffArgs, diffOut, diffDone>>

store == <<orders, users, products, categories, shops, tz>>
diffVars == <<diffArgs, diffOut, diffDone>>

(***************************************************************************)
(* Bounds                                                                  *)
(***************************************************************************)
TicksPerDay == 2
DaysPerYear == 1
MaxTz == 1
MaxDay == 1
MaxOrders == 3
MaxAmount == 2
NumBuyers == 6
MaxVal == 150
MaxItems == 2

(***************************************************************************)
(* Program constants                                                       *)
(***************************************************************************)
TopLimit == 5

Null == "null"
Uncategorized == "Sans categorie"

\* A request parameter (req.user.shop_id, req.query.startDate, ...): undefined,
\* a well-formed value, or (for year) a string that is not a number
Absent == [present |-> FALSE, numeric |-> FALSE, value |-> 0]
Given(v) == [present |-> TRUE, numeric |-> TRUE, value |-> v]
Garbage == [present |-> TRUE, numeric |-> FALSE, value |-> 0]

Statuses == {"pending", "confirmed", "shipped", "delivered", "cancelled"}
ValidatedStatuses == {"confirmed", "shipped", "delivered"}
Shops == {1, 2}
Years == {2023, 2024}
Dates == 0..MaxDay
TzOffsets == (0 - MaxTz)..MaxTz
Buyers == 1..NumBuyers

Min(a, b) == IF a < b THEN a ELSE b
Abs(a) == IF a < 0 THEN 0 - a ELSE a

RECURSIVE SumTotal(_)
\* { $sum: "$amounts.total" } over a set of order documents
SumTotal(S) ==
    IF S = {} THEN 0
    ELSE LET o == CHOOSE o \in S : TRUE IN o.total + SumTotal(S \ {o})

RECURSIVE SumPrice(_)
\* { $sum: "$items.total_price_ttc" } over a set of unwound line items
SumPrice(S) ==
    IF S = {} THEN 0
    ELSE LET i == CHOOSE i \in S : TRUE IN i.total_price_ttc + SumPrice(S \ {i})

(***************************************************************************)
(* calculatePercentageDiff                                                 *)
(***************************************************************************)
\* (num / den).toFixed(2) then parseFloat, in hundredths: the nearest hundredth,
\* a tie going away from zero
ToFixed2(num, den) ==
    LET a == Abs(num) * 100
        d == Abs(den)
        q == a \div d
        r == a % d
        m == IF 2 * r >= d THEN q + 1 ELSE q
    IN  IF (num < 0) # (den < 0) THEN 0 - m ELSE m

\* as ToFixed2, were the digits cut instead of rounded
ToFixed2Truncating(num, den) ==
    LET a == Abs(num) * 100
        d == Abs(den)
        q == a \div d
    IN  IF (num < 0) # (den < 0) THEN 0 - q ELSE q

\* as calculatePercentageDiff, with the digits cut
calculatePercentageDiffNoRounding(current, previous) ==
    IF previous = 0
    THEN (IF current > 0 THEN 10000 ELSE 0)
    ELSE ToFixed2Truncating((current - previous) * 100, previous)

calculatePercentageDiff(current, previous) ==
    IF previous = 0
    THEN (IF current > 0 THEN 10000 ELSE 0)
    ELSE ToFixed2((current - previous) * 100, previous)

(***************************************************************************)
(* Date windows                                                            *)
(***************************************************************************)
\* new Date("YYYY-MM-DD"): a date-only string is midnight UTC of that day
ParseDate(d) == d * TicksPerDay

\* date.setHours(23, 59, 59, 999): the last instant of the date's LOCAL day
SetHoursEndOfDay(t, off) ==
    LET localDay == (t + off) \div TicksPerDay
    IN  localDay * TicksPerDay + (TicksPerDay - 1) - off

RangeWindow(r) ==
    [valid |-> TRUE,
     start |-> ParseDate(r.startDate.value),
     end   |-> SetHoursEndOfDay(ParseDate(r.endDate.value), tz)]

TicksPerYear == DaysPerYear * TicksPerDay

\* new Date(`${year}-01-01`) and new Date(`${year}-12-31T23:59:59.999Z`), in UTC;
\* a year that is not a number gives Invalid Date for both
YearWindow(y) ==
    [valid |-> y.numeric,
     start |-> (y.value - 2022) * TicksPerYear,
     end   |-> (y.value - 2021) * TicksPerYear - 1]

\* parseInt(year) - 1; NaN for a year that is not a number
PrevYear(y) == [y EXCEPT !.value = y.value - 1]

\* $match: { shop_id, created_at: { $gte: start, $lte: end } }; an Invalid Date
\* bound matches no order
Matched(shop, w) ==
    {o \in orders : /\ w.valid
                    /\ o.shop_id = shop
                    /\ o.created_at >= w.start
                    /\ o.created_at <= w.end}

\* as GroupAll, were totalAmount to sum 1 per order
GroupAllSumOne(S) ==
    IF S = {} THEN <<>>
    ELSE <<[totalOrders |-> Cardinality(S), totalAmount |-> Cardinality(S)]>>

\* as GroupAll, were the summary pipeline to match validated orders only
GroupAllValidated(S) ==
    LET V == {o \in S : o.status \in ValidatedStatuses}
    IN  IF V = {} THEN <<>>
        ELSE <<[totalOrders |-> Cardinality(V), totalAmount |-> SumTotal(V)]>>

\* $group: { _id: null, totalOrders: { $sum: 1 }, totalAmount: { $sum: "$amounts.total" } }
\* yields no document when nothing matches
GroupAll(S) ==
    IF S = {} THEN <<>>
    ELSE <<[totalOrders |-> Cardinality(S), totalAmount |-> SumTotal(S)]>>

\* $group: { _id: "$status", count: { $sum: 1 } }
GroupByStatus(S) ==
    {[id |-> s, count |-> Cardinality({o \in S : o.status = s})] :
        s \in {o.status : o \in S}}

\* statusMap[s] || 0
StatusCount(breakdown, s) ==
    IF \E d \in breakdown : d.id = s
    THEN (CHOOSE d \in breakdown : d.id = s).count
    ELSE 0

RECURSIVE SortedDesc(_, _)
\* { $sort: { k: -1 } }: every order of the documents of S that descends on
\* field k; documents with equal keys come in any order
SortedDesc(S, k) ==
    IF S = {} THEN {<<>>}
    ELSE UNION {{<<g>> \o rest : rest \in SortedDesc(S \ {g}, k)} :
                    g \in {g \in S : \A h \in S : h[k] <= g[k]}}

\* { $limit: n }
Limit(s, n) == SubSeq(s, 1, Min(n, Len(s)))

\* $group: { _id: "$buyer_id", orderCount: { $sum: 1 }, totalAmount: { $sum: "$amounts.total" } }
GroupByBuyer(S) ==
    {[id |-> b,
      orderCount |-> Cardinality({o \in S : o.buyer_id = b}),
      totalAmount |-> SumTotal({o \in S : o.buyer_id = b})] :
        b \in {o.buyer_id : o \in S}}

\* the users document of buyer b
UserProfile(b) ==
    [firstname |-> <<"firstname", b>>,
     lastname  |-> <<"lastname", b>>,
     email     |-> <<"email", b>>]

HasUser(g) == g.id \in users

\* $lookup from users, $unwind "$user" (a group without a user document is
\* dropped), $project
JoinUsers(s) ==
    LET kept == SelectSeq(s, HasUser)
    IN  [i \in 1..Len(kept) |->
            [id |-> kept[i].id,
             orderCount |-> kept[i].orderCount,
             totalAmount |-> kept[i].totalAmount,
             firstname |-> UserProfile(kept[i].id).firstname,
             lastname |-> UserProfile(kept[i].id).lastname,
             email |-> UserProfile(kept[i].id).email]]

\* as MatchedValidated, without the status filter
MatchedAnyStatus(shop, w) == Matched(shop, w)

\* matchStage of getShopTopClients
MatchedValidated(shop, w) ==
    {o \in Matched(shop, w) : o.status \in ValidatedStatuses}

\* the top-5 pipeline sorted on field k
TopClients(shop, w, k) ==
    {JoinUsers(Limit(s, TopLimit)) :
        s \in SortedDesc(GroupByBuyer(MatchedValidated(shop, w)), k)}

\* { $unwind: "$items" }: one row per line item of the matched orders
Unwind(S) ==
    UNION {{[oid |-> o.id,
             idx |-> i,
             product_id |-> o.items[i].product_id,
             name |-> o.items[i].name,
             total_price_ttc |-> o.items[i].total_price_ttc] :
                i \in 1..Len(o.items)} : o \in S}

\* { $first: "$items.name" } of a group: no $sort precedes the $group, so the
\* first row is the first line item, in its order, of whichever matched order
\* the store returns first
FirstNames(rows) ==
    {r.name : r \in {r \in rows : \A q \in rows : q.oid = r.oid => r.idx <= q.idx}}

\* the $group stage of getShopProductStats, for each choice of first rows
ProductGroups(rows) ==
    LET pids == {r.product_id : r \in rows}
        of(p) == {r \in rows : r.product_id = p}
    IN  {{[id |-> p,
           productName |-> f[p],
           orderCount |-> Cardinality(of(p)),
           totalAmount |-> SumPrice(of(p))] : p \in pids} :
            f \in {f \in [pids -> {r.name : r \in rows}] :
                        \A p \in pids : f[p] \in FirstNames(of(p))}}

\* the pipeline of getShopProductStats
ProductStats(shop, w) ==
    UNION {SortedDesc(G, "totalAmount") : G \in ProductGroups(Unwind(Matched(shop, w)))}

\* the name of category document c
CategoryName(c) == <<"name", c>>

\* $lookup from products and { $unwind: "$product" }: a line item whose product
\* document is gone is dropped; the row carries the product's category_id
\* (null when the product has none)
JoinProducts(rows) ==
    {[oid |-> r.oid,
      idx |-> r.idx,
      category_id |-> products[r.product_id],
      total_price_ttc |-> r.total_price_ttc] :
        r \in {r \in rows : r.product_id \in DOMAIN products}}

\* $lookup from categoryproducts, $unwind preserving rows without a category
\* document, and $ifNull: ["$category.name", "Sans categorie"]
CategoryLabel(c) ==
    IF c # Null /\ c \in categories THEN CategoryName(c) ELSE Uncategorized

\* $group: { _id: "$product.category_id", ... }
CategoryGroupKey(row) == row.category_id

CategoryGroups(rows) ==
    {[id |-> c,
      categoryName |-> CategoryLabel(c),
      orderCount |-> Cardinality({r \in rows : CategoryGroupKey(r) = c}),
      totalAmount |-> SumPrice({r \in rows : CategoryGroupKey(r) = c})] :
        c \in {CategoryGroupKey(r) : r \in rows}}

\* the pipeline of getShopCategoryStats
CategoryStats(shop, w) ==
    SortedDesc(CategoryGroups(JoinProducts(Unwind(Matched(shop, w)))), "totalAmount")

\* as DistinctBuyers, were each order to yield its own value
BuyerOfEachOrder(shop, w) == {<<o.id, o.buyer_id>> : o \in Matched(shop, w)}

\* Order.distinct('buyer_id', { shop_id, created_at })
DistinctBuyers(shop, w) == {o.buyer_id : o \in Matched(shop, w)}

(***************************************************************************)
(* The handlers                                                            *)
(***************************************************************************)
Handlers == {"getShopOrderSummary", "getShopTopClients", "getShopProductStats",
             "getShopCategoryStats", "getShopGlobalStats"}
RangeHandlers == {"getShopOrderSummary", "getShopTopClients"}
YearHandlers == Handlers \ RangeHandlers

\* the queries a handler hands to the store
Queries(h) ==
    CASE h = "getShopOrderSummary" -> {"summary", "statusBreakdown"}
      [] h = "getShopTopClients" -> {"topByCount", "topByAmount"}
      [] h = "getShopProductStats" -> {"productStats"}
      [] h = "getShopCategoryStats" -> {"categoryStats"}
      [] h = "getShopGlobalStats" ->
            {"currentStats", "prevStats", "currentCustomers", "prevCustomers", "shopData"}

\* the window(s) a query filters created_at on
QueryWindow(q, r) ==
    CASE q \in {"summary", "statusBreakdown", "topByCount", "topByAmount"} -> RangeWindow(r)
      [] q \in {"prevStats", "prevCustomers"} -> YearWindow(PrevYear(r.year))
      [] OTHER -> YearWindow(r.year)

\* the results the store can return for query q of request r
QueryOutcomes(q, r) ==
    LET shop == r.shop_id.value
        w == QueryWindow(q, r)
    IN  CASE q = "summary" -> {GroupAll(Matched(shop, w))}
          [] q = "statusBreakdown" -> {GroupByStatus(Matched(shop, w))}
          [] q = "topByCount" -> TopClients(shop, w, "orderCount")
          [] q = "topByAmount" -> TopClients(shop, w, "totalAmount")
          [] q = "productStats" -> ProductStats(shop, w)
          [] q = "categoryStats" -> CategoryStats(shop, w)
          [] q = "currentStats" -> {GroupAll(Matched(shop, w))}
          [] q = "prevStats" -> {GroupAll(Matched(shop, w))}
          [] q = "currentCustomers" -> {DistinctBuyers(shop, w)}
          [] q = "prevCustomers" -> {DistinctBuyers(shop, w)}
          [] q = "shopData" ->
                {IF shop \in DOMAIN shops THEN <<shops[shop]>> ELSE <<>>}

\* Order.distinct goes through the schema's casting, which rejects an Invalid
\* Date; an aggregation pipeline is sent as written
CastsFilter(q) == q \in {"currentCustomers", "prevCustomers"}

NoResults == [q \in {} |-> <<>>]

\* as MissingParam, were the parameter check left out
MissingParamIgnored(h, r) == FALSE

\* if (!startDate || !endDate) of the range reports, if (!year) of the year reports
MissingParam(h, r) ==
    IF h \in RangeHandlers
    THEN ~r.startDate.present \/ ~r.endDate.present
    ELSE ~r.year.present

\* the message of the 400 for a missing parameter
MissingParamMessage(h) ==
    IF h \in RangeHandlers THEN "startDate and endDate are required" ELSE "Year is required"

ClientError(msg) == [status |-> 400, body |-> [message |-> msg]]
ServerError(cause) ==
    [status |-> 500, body |-> [message |-> "Server error", error |-> cause]]

\* the payload of the 200 response
ResponseBody(h, res) ==
    CASE h = "getShopOrderSummary" ->
            [totalOrders |-> IF Len(res["summary"]) > 0
                             THEN res["summary"][1].totalOrders ELSE 0,
             totalAmount |-> IF Len(res["summary"]) > 0
                             THEN res["summary"][1].totalAmount ELSE 0,
             pendingOrders |-> StatusCount(res["statusBreakdown"], "pending"),
             confirmedOrders |-> StatusCount(res["statusBreakdown"], "confirmed")]
      [] h = "getShopTopClients" ->
            [topByCount |-> res["topByCount"], topByAmount |-> res["topByAmount"]]
      [] h = "getShopProductStats" -> res["productStats"]
      [] h = "getShopCategoryStats" -> res["categoryStats"]
      [] h = "getShopGlobalStats" ->
            LET cur == res["currentStats"]
                prv == res["prevStats"]
                totalOrders == IF Len(cur) > 0 THEN cur[1].totalOrders ELSE 0
                totalAmount == IF Len(cur) > 0 THEN cur[1].totalAmount ELSE 0
                totalOrdersPrev == IF Len(prv) > 0 THEN prv[1].totalOrders ELSE 0
                totalAmountPrev == IF Len(prv) > 0 THEN prv[1].totalAmount ELSE 0
                totalCustomers == Cardinality(res["currentCustomers"])
                totalCustomersPrev == Cardinality(res["prevCustomers"])
                shopData == res["shopData"]
            IN  [totalOrders |-> totalOrders,
                 ordersDiff |-> calculatePercentageDiff(totalOrders, totalOrdersPrev),
                 totalAmount |-> totalAmount,
                 amountDiff |-> calculatePercentageDiff(totalAmount, totalAmountPrev),
                 avgRating |-> IF Len(shopData) > 0 THEN shopData[1].avg_rating ELSE 0,
                 countRating |-> IF Len(shopData) > 0 THEN shopData[1].count_rating ELSE 0,
                 totalCustomers |-> totalCustomers,
                 customersDiff |-> calculatePercentageDiff(totalCustomers, totalCustomersPrev)]

\* A request arrives: the handler validates it and either answers 400 or
\* issues all its queries at once
Begin(h, shop, sd, ed, yr) ==
    /\ pc = "idle"
    /\ LET r == [handler |-> h, shop_id |-> shop, startDate |-> sd,
                 endDate |-> ed, year |-> yr]
       IN  /\ req' = r
           /\ IF ~shop.present
              THEN /\ responses' = <<ClientError("No shop linked to this account")>>
                   /\ pc' = "done"
                   /\ pending' = {}
                   /\ issued' = 0
              ELSE IF MissingParam(h, r)
              THEN /\ responses' = <<ClientError(MissingParamMessage(h))>>
                   /\ pc' = "done"
                   /\ pending' = {}
                   /\ issued' = 0
              ELSE /\ responses' = <<>>
                   /\ pc' = "awaiting"
                   /\ pending' = Queries(h)
                   /\ issued' = Cardinality(Queries(h))
    /\ qres' = NoResults
    /\ dirty' = FALSE
    /\ UNCHANGED <<store, prev, diffVars>>

\* the store answers one of the queries in flight
RunQuery ==
    /\ pc = "awaiting"
    /\ \E q \in pending :
         /\ ~(CastsFilter(q) /\ ~QueryWindow(q, req).valid)
         /\ \E out \in QueryOutcomes(q, req) :
              qres' = [x \in DOMAIN qres \cup {q} |-> IF x = q THEN out ELSE qres[x]]
         /\ pending' = pending \ {q}
    /\ UNCHANGED <<store, req, pc, responses, issued, dirty, prev, diffVars>>

\* a query rejects because the store cannot be reached: Promise.all rejects,
\* the other results are never bound, and the catch block answers 500
QueryFails ==
    /\ pc = "awaiting"
    /\ pending # {}
    /\ responses' = <<ServerError("store unreachable")>>
    /\ pc' = "done"
    /\ pending' = {}
    /\ qres' = NoResults
    /\ UNCHANGED <<store, req, issued, dirty, prev, diffVars>>

\* Order.distinct rejects a filter whose date is Invalid Date: the catch block
\* answers 500
CastFails ==
    /\ pc = "awaiting"
    /\ \E q \in pending : CastsFilter(q) /\ ~QueryWindow(q, req).valid
    /\ responses' = <<ServerError("Cast to date failed")>>
    /\ pc' = "done"
    /\ pending' = {}
    /\ qres' = NoResults
    /\ UNCHANGED <<store, req, issued, dirty, prev, diffVars>>

\* every query has answered: res.status(200).json(...)
Respond ==
    /\ pc = "awaiting"
    /\ pending = {}
    /\ responses' = <<[status |-> 200, body |-> ResponseBody(req.handler, qres)]>>
    /\ pc' = "done"
    /\ UNCHANGED <<store, req, pending, qres, issued, dirty, prev, diffVars>>

NoRequest == [handler |-> "none", shop_id |-> Absent, startDate |-> Absent,
              endDate |-> Absent, year |-> Absent]

\* the request is over; the handler keeps nothing of it
Finish ==
    /\ pc = "done"
    /\ pc' = "idle"
    /\ req' = NoRequest
    /\ responses' = <<>>
    /\ qres' = NoResults
    /\ issued' = 0
    /\ dirty' = FALSE
    /\ UNCHANGED <<store, pending, prev, diffVars>>

InitRequest ==
    /\ req = NoRequest
    /\ pc = "idle"
    /\ pending = {}
    /\ qres = NoResults
    /\ responses = <<>>
    /\ issued = 0
    /\ dirty = FALSE
    /\ prev = <<>>

InitServer ==
    /\ InitRequest
    /\ diffArgs = <<0, 0>>
    /\ diffOut = 0
    /\ diffDone = FALSE

(***************************************************************************)
(* Stores the reports are checked against                                  *)
(***************************************************************************)
Instants == 0..((MaxDay + 1) * TicksPerDay - 1)

NoProducts == [x \in {} |-> Null]
ShopDocs == [x \in Shops |-> [avg_rating |-> 4, count_rating |-> 2]]

\* an order document with no line items
PlainOrder(i, f) ==
    [id |-> i, shop_id |-> f.shop_id, buyer_id |-> f.buyer_id,
     created_at |-> f.created_at, status |-> f.status, total |-> f.total,
     items |-> <<>>]

StatusRank(s) ==
    CASE s = "pending" -> 0 [] s = "confirmed" -> 1 [] s = "shipped" -> 2
      [] s = "delivered" -> 3 [] s = "cancelled" -> 4

\* a total order on order fields, to list each collection of orders once
FieldKey(f) ==
    (((f.shop_id * NumBuyers + f.buyer_id) * (Cardinality(Instants) + 1) + f.created_at) * 5
        + StatusRank(f.status)) * (MaxAmount + 1) + f.total

\* the collections of at most n orders whose fields are drawn from F
OrderSets(F, n) ==
    UNION {{{PlainOrder(i, f[i]) : i \in 1..k} :
                f \in {f \in [1..k -> F] :
                            \A i \in 1..(k - 1) : FieldKey(f[i]) <= FieldKey(f[i + 1])}} :
            k \in 0..n}

\* a confirmed order of shop 1 and buyer 1, created at instant 0, of total 1
BaseFields ==
    [shop_id |-> 1, buyer_id |-> 1, created_at |-> 0, status |-> "confirmed", total |-> 1]

\* orders that differ from it in status and total, in creation instant, or in shop
SummaryFields ==
    {[BaseFields EXCEPT !.status = s, !.total = a] :
        s \in {"pending", "confirmed", "delivered"}, a \in 1..MaxAmount}
    \cup {[BaseFields EXCEPT !.created_at = t] : t \in Instants}
    \cup {[BaseFields EXCEPT !.shop_id = 2]}

InitSummary ==
    /\ InitServer
    /\ orders \in OrderSets(SummaryFields, MaxOrders)
    /\ users = {1}
    /\ products = NoProducts
    /\ categories = {}
    /\ shops = ShopDocs
    /\ tz \in TzOffsets

ShopParams == {Absent, Given(1)}
DateParams == {Absent} \cup {Given(d) : d \in Dates}
YearParams == {Absent, Garbage} \cup {Given(y) : y \in Years}

NextSummary ==
    \/ \E shop \in ShopParams, sd \in DateParams, ed \in DateParams :
            Begin("getShopOrderSummary", shop, sd, ed, Absent)
    \/ RunQuery
    \/ QueryFails
    \/ Respond
    \/ Finish

SpecSummary == InitSummary /\ [][NextSummary]_vars

\* the request passed validation and was answered without a store failure
Answered(h) ==
    /\ pc = "done"
    /\ req.handler = h
    /\ issued > 0
    /\ responses[1].status # 500

\* the shop's orders created within [start, end]
InWindow(shop, start, end) ==
    {o \in orders : o.shop_id = shop /\ start <= o.created_at /\ o.created_at <= end}

\* C3: over unchanged data the order summary reports the number of in-window
\* orders of the shop, the sum of their totals, and how many of them are
\* pending and confirmed; with no matching order it is a success of four zeros
C3_SummaryCorrect ==
    (Answered("getShopOrderSummary") /\ ~dirty) =>
        LET w == RangeWindow(req)
            W == InWindow(req.shop_id.value, w.start, w.end)
            b == responses[1].body
        IN  /\ Len(responses) = 1
            /\ responses[1].status = 200
            /\ b.totalOrders = Cardinality(W)
            /\ b.totalAmount = SumTotal(W)
            /\ b.pendingOrders = Cardinality({o \in W : o.status = "pending"})
            /\ b.confirmedOrders = Cardinality({o \in W : o.status = "confirmed"})
            /\ (W = {} => b = [totalOrders |-> 0, totalAmount |-> 0,
                               pendingOrders |-> 0, confirmedOrders |-> 0])

\* three in-window orders, one pending and two confirmed, summed to 5
C3_Witness ==
    /\ Answered("getShopOrderSummary")
    /\ responses[1].body = [totalOrders |-> 3, totalAmount |-> 5,
                             pendingOrders |-> 1, confirmedOrders |-> 2]

(***************************************************************************)
(* calculatePercentageDiff on its own                                      *)
(***************************************************************************)
InitDiff ==
    /\ InitRequest
    /\ orders = {}
    /\ users = {}
    /\ products = NoProducts
    /\ categories = {}
    /\ shops = ShopDocs
    /\ tz = 0
    /\ diffArgs \in (0..MaxVal) \X (0..MaxVal)
    /\ diffOut = 0
    /\ diffDone = FALSE

CallDiff ==
    /\ ~diffDone
    /\ diffOut' = calculatePercentageDiff(diffArgs[1], diffArgs[2])
    /\ diffDone' = TRUE
    /\ UNCHANGED <<store, req, pc, pending, qres, responses, issued, dirty, prev, diffArgs>>

NextDiff == CallDiff

SpecDiff == InitDiff /\ [][NextDiff]_vars

\* C5: calculatePercentageDiff(current, previous) is 0 for (0, 0), 100 for
\* previous = 0 and current > 0, and otherwise the hundredth nearest to
\* (current - previous) / previous * 100; diff(150, 100) = 50, diff(50, 100) = -50
C5_DiffCorrect ==
    diffDone =>
        LET c == diffArgs[1]
            p == diffArgs[2]
            r == diffOut
        IN  /\ (p = 0 /\ c = 0) => r = 0
            /\ (p = 0 /\ c > 0) => r = 10000
            /\ p # 0 => 2 * Abs(r * p - (c - p) * 10000) <= p
            /\ (c = 150 /\ p = 100) => r = 5000
            /\ (c = 50 /\ p = 100) => r = 0 - 5000

\* diff(150, 100) has returned 50.00
C5_Witness == diffDone /\ diffArgs = <<150, 100>> /\ diffOut = 5000

(***************************************************************************)
(* The order summary beside external writers                               *)
(***************************************************************************)
\* another system inserts an order
InsertOrder(f) ==
    /\ Cardinality(orders) < MaxOrders
    /\ orders' = orders \cup {PlainOrder(Cardinality(orders) + 1, f)}
    /\ dirty' = (dirty \/ pc # "idle")
    /\ UNCHANGED <<users, products, categories, shops, tz, req, pc, pending, qres,
                   responses, issued, prev, diffVars>>

\* another system moves an order to another status
SetOrderStatus(o, st) ==
    /\ o \in orders
    /\ st # o.status
    /\ orders' = (orders \ {o}) \cup {[o EXCEPT !.status = st]}
    /\ dirty' = (dirty \/ pc # "idle")
    /\ UNCHANGED <<users, products, categories, shops, tz, req, pc, pending, qres,
                   responses, issued, prev, diffVars>>

InitConcurrent ==
    /\ InitServer
    /\ orders = {}
    /\ users = {1}
    /\ products = NoProducts
    /\ categories = {}
    /\ shops = ShopDocs
    /\ tz = 0

NextConcurrent ==
    \/ \E shop \in ShopParams, sd \in {Absent, Given(0)}, ed \in {Absent, Given(0)} :
            Begin("getShopOrderSummary", shop, sd, ed, Absent)
    \/ RunQuery
    \/ QueryFails
    \/ Respond
    \/ Finish
    \/ \E st \in Statuses : InsertOrder([BaseFields EXCEPT !.status = st])
    \/ \E o \in orders, st \in Statuses : SetOrderStatus(o, st)

SpecConcurrent == InitConcurrent /\ [][NextConcurrent]_vars

WindowFields == {[BaseFields EXCEPT !.created_at = t] : t \in Instants}

InitWindow ==
    /\ InitServer
    /\ orders \in OrderSets(WindowFields, 2)
    /\ users = {1}
    /\ products = NoProducts
    /\ categories = {}
    /\ shops = ShopDocs
    /\ tz \in TzOffsets

NextWindow ==
    \/ \E h \in RangeHandlers, shop \in ShopParams, sd \in DateParams, ed \in DateParams :
            Begin(h, shop, sd, ed, Absent)
    \/ RunQuery
    \/ QueryFails
    \/ Respond
    \/ Finish

SpecWindow == InitWindow /\ [][NextWindow]_vars

RECURSIVE SumOrderCount(_)
SumOrderCount(s) == IF s = <<>> THEN 0 ELSE Head(s).orderCount + SumOrderCount(Tail(s))

\* the number of orders a range report took into account
ReportedOrders ==
    IF req.handler = "getShopOrderSummary"
    THEN responses[1].body.totalOrders
    ELSE SumOrderCount(responses[1].body.topByCount)

\* C4 as stated: whatever the server's offset, a range report takes in exactly
\* the orders created from midnight of startDate to the last instant of
\* endDate, both read in one calendar reference (UTC, or the server's local time)
C4_Original ==
    \A h \in RangeHandlers :
        (Answered(h) /\ ~dirty) =>
            LET first == req.startDate.value * TicksPerDay
                last == req.endDate.value * TicksPerDay + (TicksPerDay - 1)
                shop == req.shop_id.value
            IN  \/ ReportedOrders = Cardinality(InWindow(shop, first, last))
                \/ ReportedOrders = Cardinality(InWindow(shop, first - tz, last - tz))

(***************************************************************************)
(* Top clients                                                             *)
(***************************************************************************)
LastInstant == (MaxDay + 1) * TicksPerDay - 1

\* what buyer b has ordered, each order of total b: one confirmed order; a
\* shipped and a delivered order; or only orders that do not count (pending,
\* cancelled, placed with another shop, placed on the last day)
BuyerProfiles == {"one", "two", "excluded"}

BuyerOrders(b, pf) ==
    LET f == [BaseFields EXCEPT !.buyer_id = b, !.total = b]
    IN  CASE pf = "one" -> {PlainOrder(10 * b + 1, f)}
          [] pf = "two" -> {PlainOrder(10 * b + 1, [f EXCEPT !.status = "shipped"]),
                            PlainOrder(10 * b + 2, [f EXCEPT !.status = "delivered"])}
          [] pf = "excluded" -> {PlainOrder(10 * b + 1, [f EXCEPT !.status = "pending"]),
                                 PlainOrder(10 * b + 2, [f EXCEPT !.status = "cancelled"]),
                                 PlainOrder(10 * b + 3, [f EXCEPT !.shop_id = 2]),
                                 PlainOrder(10 * b + 4, [f EXCEPT !.created_at = LastInstant])}

InitTop ==
    /\ InitServer
    /\ \E pf \in [Buyers -> BuyerProfiles] :
            orders = UNION {BuyerOrders(b, pf[b]) : b \in Buyers}
    /\ users \in {Buyers, Buyers \ {1}}
    /\ products = NoProducts
    /\ categories = {}
    /\ shops = ShopDocs
    /\ tz = 0

NextTop ==
    \/ \E shop \in ShopParams, sd \in {Absent, Given(0)}, ed \in {Absent, Given(0)} :
            Begin("getShopTopClients", shop, sd, ed, Absent)
    \/ RunQuery
    \/ QueryFails
    \/ Respond
    \/ Finish

SpecTop == InitTop /\ [][NextTop]_vars

\* the in-window orders of buyer b that count for the ranking
CountingOrders(b) ==
    LET w == RangeWindow(req)
    IN  {o \in InWindow(req.shop_id.value, w.start, w.end) :
            o.buyer_id = b /\ o.status \in {"confirmed", "shipped", "delivered"}}

\* a list of at most 5 entries, descending on field k, each entry the count and
\* the sum of its buyer's counting orders, of which there is at least one
RankedBy(list, k) ==
    /\ Len(list) <= 5
    /\ \A i \in 1..Len(list), j \in 1..Len(list) : i < j => list[i][k] >= list[j][k]
    /\ \A i \in 1..Len(list) :
            /\ CountingOrders(list[i].id) # {}
            /\ list[i].orderCount = Cardinality(CountingOrders(list[i].id))
            /\ list[i].totalAmount = SumTotal(CountingOrders(list[i].id))

\* C2: over unchanged data topByCount and topByAmount hold at most 5 entries,
\* descending on orderCount and on totalAmount; an entry carries the count and
\* the sum of its buyer's in-window confirmed, shipped and delivered orders;
\* a buyer with only pending or cancelled orders is in neither list
C2_TopClientsCorrect ==
    (Answered("getShopTopClients") /\ ~dirty) =>
        /\ responses[1].status = 200
        /\ RankedBy(responses[1].body.topByCount, "orderCount")
        /\ RankedBy(responses[1].body.topByAmount, "totalAmount")

\* six buyers qualify, five are listed, and the two rankings start differently
C2_Witness ==
    /\ Answered("getShopTopClients")
    /\ Cardinality({b \in Buyers : CountingOrders(b) # {}}) > 5
    /\ Len(responses[1].body.topByCount) = 5
    /\ Len(responses[1].body.topByAmount) = 5
    /\ responses[1].body.topByCount[1].id # responses[1].body.topByAmount[1].id

(***************************************************************************)
(* Orders with line items                                                  *)
(***************************************************************************)
ProductIds == {1, 2}
CategoryIds == {"c1", "c2"}

RECURSIVE SumItems(_)
SumItems(its) ==
    IF its = <<>> THEN 0 ELSE Head(its).total_price_ttc + SumItems(Tail(its))

\* an order of shop 1 with the given line items, its total their sum
ItemOrder(i, b, t, its) ==
    [id |-> i, shop_id |-> 1, buyer_id |-> b, created_at |-> t,
     status |-> "confirmed", total |-> SumItems(its), items |-> its]

LineItems(names) ==
    [product_id : ProductIds, name : names, total_price_ttc : 1..MaxAmount]

ItemSeqs(names, n) == UNION {[1..k -> LineItems(names)] : k \in 0..n}

\* the first instant of year y
YearStart(y) == YearWindow(Given(y)).start

\* the calendar year an instant falls in
YearOf(t) == 2022 + (t \div TicksPerYear)

(***************************************************************************)
(* All five handlers: validation                                           *)
(***************************************************************************)
Init ==
    /\ InitServer
    /\ orders \in {{}, {ItemOrder(1, 1, YearStart(2023),
                                   <<[product_id |-> 1, name |-> "old", total_price_ttc |-> 1],
                                     [product_id |-> 2, name |-> "old", total_price_ttc |-> 2]>>)}}
    /\ users = {1}
    /\ products = [x \in ProductIds |-> IF x = 1 THEN Null ELSE "c1"]
    /\ categories \in {{}, {"c1"}}
    /\ shops = ShopDocs
    /\ tz \in TzOffsets

Next ==
    \/ \E h \in RangeHandlers, shop \in ShopParams, sd \in DateParams, ed \in DateParams :
            Begin(h, shop, sd, ed, Absent)
    \/ \E h \in YearHandlers, shop \in ShopParams, yr \in YearParams :
            Begin(h, shop, Absent, Absent, yr)
    \/ RunQuery
    \/ QueryFails
    \/ CastFails
    \/ Respond
    \/ Finish

Spec == Init /\ [][Next]_vars

\* the request lacks the caller's shop or a parameter its report requires
Rejectable ==
    /\ req.handler \in Handlers
    /\ \/ ~req.shop_id.present
       \/ req.handler \in {"getShopOrderSummary", "getShopTopClients"}
            /\ (~req.startDate.present \/ ~req.endDate.present)
       \/ req.handler \in {"getShopProductStats", "getShopCategoryStats",
                            "getShopGlobalStats"}
            /\ ~req.year.present

\* C7: a request without a linked shop or without a required parameter gets
\* exactly one response, a 400, and no query is issued for it
C7_ValidationRejects ==
    Rejectable =>
        /\ Len(responses) = 1
        /\ responses[1].status = 400
        /\ issued = 0
        /\ pending = {}
        /\ DOMAIN qres = {}

\* a global-stats request of a shop owner that names no year was answered 400
C7_Witness ==
    /\ req.handler = "getShopGlobalStats"
    /\ req.shop_id.present
    /\ ~req.year.present
    /\ pc = "done"
    /\ responses[1].status = 400

\* the store was reachable throughout the request
StoreUp ==
    ~(responses[1].status = 500 /\ responses[1].body.error = "store unreachable")

\* C8 as stated: with the store reachable, a year report asked with a year that
\* is not a number is answered with a client error, like a missing year
C8_Original ==
    \A h \in YearHandlers :
        (/\ pc = "done"
         /\ req.handler = h
         /\ req.shop_id.present
         /\ req.year.present
         /\ ~req.year.numeric
         /\ StoreUp) => responses[1].status = 400

(***************************************************************************)
(* Category statistics                                                     *)
(***************************************************************************)
\* each product is gone, has no category, or names a category
ProductCollections ==
    UNION {[P -> {Null} \cup CategoryIds] : P \in SUBSET ProductIds}

InitCategory ==
    /\ InitServer
    /\ \E its \in ItemSeqs({"old"}, MaxItems) :
            orders = {ItemOrder(1, 1, YearStart(2023), its)}
    /\ users = {1}
    /\ products \in ProductCollections
    /\ categories \in SUBSET CategoryIds
    /\ shops = ShopDocs
    /\ tz = 0

NextCategory ==
    \/ \E shop \in ShopParams, yr \in YearParams :
            Begin("getShopCategoryStats", shop, Absent, Absent, yr)
    \/ RunQuery
    \/ QueryFails
    \/ Respond
    \/ Finish

SpecCategory == InitCategory /\ [][NextCategory]_vars

\* the line items of the shop's orders of the requested year whose product has
\* no category or names a category that no longer exists
UncategorizedItems ==
    {r \in Unwind({o \in orders : /\ o.shop_id = req.shop_id.value
                                   /\ YearOf(o.created_at) = req.year.value}) :
        /\ r.product_id \in DOMAIN products
        /\ \/ products[r.product_id] = Null
           \/ products[r.product_id] \notin categories}

\* C1 as stated: the line items without a category, or with a deleted one, make
\* up exactly one row, labelled uncategorized, that counts and sums them all
C1_Original ==
    (Answered("getShopCategoryStats") /\ req.year.numeric /\ ~dirty) =>
        LET rows == responses[1].body
            sentinel == {i \in 1..Len(rows) : rows[i].categoryName = Uncategorized}
        IN  IF UncategorizedItems = {}
            THEN sentinel = {}
            ELSE /\ Cardinality(sentinel) = 1
                 /\ \A i \in sentinel :
                        /\ rows[i].orderCount = Cardinality(UncategorizedItems)
                        /\ rows[i].totalAmount = SumPrice(UncategorizedItems)

(***************************************************************************)
(* Global statistics                                                       *)
(***************************************************************************)
\* the first and the last instant of 2022, 2023 and 2024
YearEdges ==
    UNION {{YearStart(y), YearStart(y + 1) - 1} : y \in {2022, 2023, 2024}}

GlobalFields ==
    {[BaseFields EXCEPT !.buyer_id = b, !.created_at = t] : b \in {1, 2}, t \in YearEdges}
    \cup {[BaseFields EXCEPT !.created_at = YearStart(2023), !.total = a] : a \in 1..MaxAmount}
    \cup {[BaseFields EXCEPT !.created_at = YearStart(2023), !.shop_id = 2]}

InitGlobal ==
    /\ InitServer
    /\ orders \in OrderSets(GlobalFields, MaxOrders)
    /\ users = {1, 2}
    /\ products = NoProducts
    /\ categories = {}
    /\ shops = ShopDocs
    /\ tz \in TzOffsets

NextGlobal ==
    \/ \E shop \in ShopParams, yr \in YearParams :
            Begin("getShopGlobalStats", shop, Absent, Absent, yr)
    \/ RunQuery
    \/ QueryFails
    \/ CastFails
    \/ Respond
    \/ Finish

SpecGlobal == InitGlobal /\ [][NextGlobal]_vars

\* the shop's orders whose creation instant falls in year y
OrdersOfYear(y) ==
    {o \in orders : o.shop_id = req.shop_id.value /\ YearOf(o.created_at) = y}

\* C6: over unchanged data totalCustomers is the number of distinct buyers of
\* the target year, and the three diffs compare the target year's order count,
\* amount and distinct buyers with the preceding year's, each order counted in
\* the year of its creation instant only
C6_GlobalCorrect ==
    (Answered("getShopGlobalStats") /\ ~dirty) =>
        LET cur == OrdersOfYear(req.year.value)
            prv == OrdersOfYear(req.year.value - 1)
            b == responses[1].body
        IN  /\ responses[1].status = 200
            /\ b.totalCustomers = Cardinality({o.buyer_id : o \in cur})
            /\ b.ordersDiff = calculatePercentageDiff(Cardinality(cur), Cardinality(prv))
            /\ b.amountDiff = calculatePercentageDiff(SumTotal(cur), SumTotal(prv))
            /\ b.customersDiff =
                    calculatePercentageDiff(Cardinality({o.buyer_id : o \in cur}),
                                            Cardinality({o.buyer_id : o \in prv}))

\* two orders of one buyer in the target year, one order the year before
C6_Witness ==
    /\ Answered("getShopGlobalStats")
    /\ responses[1].body.totalOrders = 2
    /\ responses[1].body.totalCustomers = 1
    /\ responses[1].body.ordersDiff = 10000
    /\ responses[1].body.customersDiff = 0

(***************************************************************************)
(* The same request twice                                                  *)
(***************************************************************************)
\* the request is over; an observer keeps it and its response to compare the
\* next one with
FinishRemember ==
    /\ pc = "done"
    /\ pc' = "idle"
    /\ prev' = <<[req |-> req, response |-> responses[1]]>>
    /\ req' = NoRequest
    /\ responses' = <<>>
    /\ qres' = NoResults
    /\ issued' = 0
    /\ dirty' = FALSE
    /\ UNCHANGED <<store, pending, diffVars>>

\* two orders of one line item each, placed at the start of 2023
RepeatStores ==
    {{ItemOrder(1, 1, YearStart(2023), its1), ItemOrder(2, b, YearStart(2023), its2)} :
        its1 \in [1..1 -> LineItems({"old", "new"})],
        its2 \in [1..1 -> LineItems({"old", "new"})],
        b \in {1, 2}}

InitRepeat ==
    /\ InitServer
    /\ orders \in RepeatStores
    /\ users = {1, 2}
    /\ products = [x \in ProductIds |-> IF x = 1 THEN Null ELSE "c1"]
    /\ categories = {"c1"}
    /\ shops = ShopDocs
    /\ tz = 0

NextRepeat ==
    \/ \E h \in RangeHandlers : Begin(h, Given(1), Given(0), Given(MaxDay), Absent)
    \/ \E h \in YearHandlers : Begin(h, Given(1), Absent, Absent, Given(2023))
    \/ RunQuery
    \/ QueryFails
    \/ Respond
    \/ FinishRemember

SpecRepeat == InitRepeat /\ [][NextRepeat]_vars

\* C9 as stated: a report asked twice with the same parameters over unchanged
\* data answers the same twice, row order, the top-5 cut and the names chosen
\* for a group included
C9_Original ==
    \A h \in Handlers :
        (/\ pc = "done"
         /\ req.handler = h
         /\ Len(prev) > 0
         /\ prev[1].req = req
         /\ prev[1].response.status = 200
         /\ responses[1].status = 200) => responses[1].body = prev[1].response.body

====
